---------------------------- MODULE Spec2Model ----------------------------
(***************************************************************************)
(* Model of the dubbing backend of src/main.py: the POST /translate        *)
(* provider chain (LibreTranslate, MyMemory, echo fallback), the POST /tts *)
(* synthesis wrapper, and the best-effort Job persistence of both.         *)
(*                                                                         *)
(* Strings whose content matters (request text, provider payloads) are     *)
(* sequences of one-character strings, so that Python truthiness is        *)
(* Len(s) > 0 and "whitespace-only" is a property of the characters.       *)
(* An Optional[str] is a record [isNone, v].                               *)
(***************************************************************************)
EXTENDS Naturals, Sequences, FiniteSets

VARIABLES
    reqs,       \* sequence of the requests received so far, in arrival order
    db,         \* the module-level `db` imported from database: "None" or "connected"
    jobs,       \* the "job" collection of the document store
    files,      \* the writes made into OUTPUT_DIR: [name, writer]
    issued      \* number of tokens uuid.uuid4() has handed out

vars == <<reqs, db, jobs, files, issued>>

\* The number of requests a behaviour receives.
MaxReqs == 2

-----------------------------------------------------------------------------
(* Values *)

None == [isNone |-> TRUE, v |-> <<>>]
Str(s) == [isNone |-> FALSE, v |-> s]

\* Python truthiness of an Optional[str]: `not x` is true of None and of "".
Falsy(x) == x.isNone \/ Len(x.v) = 0

Whitespace == {" "}

\* s.strip() == "" for a str s.
IsBlank(s) == \A i \in 1..Len(s) : s[i] \in Whitespace

SUPPORTED_LANGS ==
    [hi |-> "Hindi", bn |-> "Bengali", ta |-> "Tamil", te |-> "Telugu",
     ml |-> "Malayalam", mr |-> "Marathi", gu |-> "Gujarati", kn |-> "Kannada",
     pa |-> "Punjabi", or |-> "Odia", as |-> "Assamese"]

\* Request inputs: a supported and an unsupported language code, the text sent
\* to /translate, and the texts sent to /tts.
LangInputs == {"hi", "xx"}
TranslateTexts == {<<"h">>}
TtsTexts == {<<"h">>, <<"n">>}

\* Strings a provider may put in its translatedText field.
PayloadStrings == {<<>>, <<" ">>, <<"n">>}
Payloads == {None} \cup {Str(s) : s \in PayloadStrings}

-----------------------------------------------------------------------------
(* Translation providers *)

\* Result of calling a provider function: it raised, or it returned a value.
Raised(e) == [kind |-> "raise", exc |-> e, val |-> None]
Returned(x) == [kind |-> "return", exc |-> "", val |-> x]
NotCalled == [kind |-> "none", exc |-> "", val |-> None]

\* What the HTTP exchange with LibreTranslate can produce: requests.post or
\* raise_for_status() raises (timeout, connection error, error status), the
\* body is JSON null, or the body is an object whose translatedText is
\* absent/null (None) or a string.
LibreReplies ==
    {[http |-> "fail", body |-> "", text |-> None],
     [http |-> "ok", body |-> "null", text |-> None]}
    \cup {[http |-> "ok", body |-> "object", text |-> p] : p \in Payloads}

_translate_via_libre(reply) ==
    IF reply.http = "fail" THEN Raised("RequestException")
    ELSE IF reply.body = "null" THEN Raised("AttributeError")
    ELSE Returned(reply.text)

\* MyMemory: as above, and the object's responseData may be missing or falsy.
MyMemoryReplies ==
    {[http |-> "fail", body |-> "", rd |-> FALSE, text |-> None],
     [http |-> "ok", body |-> "null", rd |-> FALSE, text |-> None],
     [http |-> "ok", body |-> "object", rd |-> FALSE, text |-> None]}
    \cup {[http |-> "ok", body |-> "object", rd |-> TRUE, text |-> p] : p \in Payloads}

_translate_via_mymemory(reply) ==
    IF reply.http = "fail" THEN Raised("RequestException")
    ELSE IF reply.body # "null" /\ reply.rd THEN Returned(reply.text)
    ELSE Returned(None)

-----------------------------------------------------------------------------
(* Requests and responses *)

NoFile == [prefix |-> "", hex |-> 0, ext |-> ""]

NoResp == [status |-> 0, fields |-> {}, translated |-> None, notes |-> <<>>,
           audio_url |-> NoFile, detail |-> <<>>]

HTTPException(code, det) ==
    [NoResp EXCEPT !.status = code, !.fields = {"detail"}, !.detail = det]

NewReq(e, t, l) ==
    [ep |-> e, text |-> t, lang |-> l, pc |-> "start",
     translated |-> None, errors |-> <<>>, calls |-> <<>>,
     libre |-> NotCalled, mymemory |-> NotCalled,
     engine |-> "none", filename |-> NoFile, persist |-> "none",
     resp |-> NoResp]

Ids == 1..Len(reqs)

\* Validation that lets every code through.
IsSupportedAny(lang) == TRUE

IsSupported(lang) == lang \in DOMAIN SUPPORTED_LANGS

\* errors[:1]
NotesFirst(errors) == SubSeq(errors, 1, IF Len(errors) < 1 THEN Len(errors) ELSE 1)

\* errors[:2]
Notes(errors) == SubSeq(errors, 1, IF Len(errors) < 2 THEN Len(errors) ELSE 2)

Set(r, new) == reqs' = [reqs EXCEPT ![r] = new]


-----------------------------------------------------------------------------
(* Job persistence *)

\* database.create_document(collection, data): inserts one document, or raises
\* (store unreachable, write failed) and inserts nothing.  `r` stands for the
\* _id the store gives the document.
create_document(store, r, doc, outcome) ==
    IF outcome = "stored" THEN store \cup {[req |-> r, doc |-> doc]} ELSE store

\* How the guarded write can end: the branch is skipped when db is None.
PersistOutcomes == IF db = "None" THEN {"skipped"} ELSE {"stored", "raised"}

\* A write that replaces the earlier Job of the same source text and target
\* language instead of inserting a new one.
StoreJobReplace(store, r, doc, outcome) ==
    IF db # "None" /\ outcome = "stored"
    THEN {j \in store : ~(j.doc.source_text = doc.source_text
                           /\ j.doc.target_language = doc.target_language)}
         \cup {[req |-> r, doc |-> doc]}
    ELSE store

\* try: if db is not None: create_document("job", {...})   except Exception: pass
StoreJob(store, r, doc, outcome) ==
    IF db # "None" THEN create_document(store, r, doc, outcome) ELSE store

\* A handler that lets the failed write reach the caller.
AfterPersistSurfaced(outcome, ok) ==
    IF outcome = "raised" THEN HTTPException(500, <<"Internal Server Error">>) ELSE ok

\* The handler's behaviour after the guarded write: the exception is swallowed
\* and the response built before it is returned as it is.
AfterPersist(outcome, ok) == ok

TranslateJob(q) ==
    [source_type |-> "text", source_text |-> q.text, source_language |-> "None",
     target_language |-> q.lang, translation |-> q.translated,
     audio_filename |-> NoFile, status |-> "translated"]

TtsJob(q) ==
    [source_type |-> "text", source_text |-> q.text, source_language |-> "absent",
     target_language |-> q.lang, translation |-> None,
     audio_filename |-> q.filename, status |-> "tts_generated"]

-----------------------------------------------------------------------------
(* POST /translate *)

\* A chain that always goes on to the second provider.
NeedsSecondaryAlways(translated) == TRUE

\* `if not translated:` before the second provider.
NeedsSecondary(translated) == Falsy(translated)

\* A fallback that lost its condition.
FallbackAlways(translated, text) == Str(text)

\* `if not translated: translated = req.text`
Fallback(translated, text) == IF Falsy(translated) THEN Str(text) ELSE translated

\* What a provider call leaves in `translated` and `errors`.
Assign(translated, out) == IF out.kind = "return" THEN out.val ELSE translated
Record(errors, label, out) ==
    IF out.kind = "raise" THEN Append(errors, <<label, out.exc>>) ELSE errors

\* Lines 104-108: the request arrives and its target language is validated.
TranslateStart(t, l) ==
    /\ Len(reqs) < MaxReqs
    /\ LET q == NewReq("translate", t, l) IN
       reqs' = Append(reqs,
           IF IsSupported(l)
           THEN [q EXCEPT !.pc = "libre"]
           ELSE [q EXCEPT !.pc = "done",
                    !.resp = HTTPException(400, <<"Unsupported target language">>)])
    /\ UNCHANGED <<db, jobs, files, issued>>

\* Lines 110-115: the primary provider.
TranslateLibre(r) ==
    /\ reqs[r].pc = "libre"
    /\ \E reply \in LibreReplies :
         LET q == reqs[r]
             out == _translate_via_libre(reply)
             tr == Assign(q.translated, out)
         IN Set(r, [q EXCEPT !.calls = Append(@, "libre"),
                             !.libre = out,
                             !.translated = tr,
                             !.errors = Record(@, "LibreTranslate error", out),
                             !.pc = IF NeedsSecondary(tr) THEN "mymemory" ELSE "persist"])
    /\ UNCHANGED <<db, jobs, files, issued>>

\* Lines 116-123: the secondary provider, then the echo fallback.
TranslateMyMemory(r) ==
    /\ reqs[r].pc = "mymemory"
    /\ \E reply \in MyMemoryReplies :
         LET q == reqs[r]
             out == _translate_via_mymemory(reply)
             tr == Assign(q.translated, out)
         IN Set(r, [q EXCEPT !.calls = Append(@, "mymemory"),
                             !.mymemory = out,
                             !.translated = Fallback(tr, q.text),
                             !.errors = Record(@, "MyMemory error", out),
                             !.pc = "persist"])
    /\ UNCHANGED <<db, jobs, files, issued>>

\* Lines 125-139: the best-effort Job write and the response.
TranslatePersist(r) ==
    /\ reqs[r].pc = "persist"
    /\ reqs[r].ep = "translate"
    /\ \E o \in PersistOutcomes :
         LET q == reqs[r]
             ok == [NoResp EXCEPT !.status = 200,
                                  !.fields = {"translated", "notes"},
                                  !.translated = q.translated,
                                  !.notes = Notes(q.errors)]
         IN /\ jobs' = StoreJob(jobs, r, TranslateJob(q), o)
            /\ Set(r, [q EXCEPT !.persist = o, !.resp = AfterPersist(o, ok),
                                !.pc = "done"])
    /\ UNCHANGED <<db, files, issued>>

-----------------------------------------------------------------------------
(* POST /tts *)

\* A file name derived from the text instead of a fresh token.
FilenameFromText(token, text, lang) ==
    [prefix |-> "tts_", hex |-> Len(text), ext |-> ".mp3"]

\* f"tts_{uuid.uuid4().hex}.mp3": uuid4 is taken to return a token it has not
\* returned before; the name depends on nothing else.
Filename(token, text, lang) == [prefix |-> "tts_", hex |-> token, ext |-> ".mp3"]

ImportOutcomes == {"ok", "ImportError"}

\* gTTS(text=..., lang=...) raises, or save() raises before or after it has
\* created the file, or the file is saved.
EngineOutcomes == {"ctor_raises", "save_raises", "save_raises_partial", "ok"}

\* A handler that goes on after a failed synthesis.
AfterSynthGoOn(o) == "persist"

\* Where the handler goes after the synthesis try block.
AfterSynth(o) == IF o = "ok" THEN "persist" ELSE "done"

\* Lines 148-159: validation, the lazy import and the file name.
TtsStart(t, l) ==
    /\ Len(reqs) < MaxReqs
    /\ LET q == NewReq("tts", t, l) IN
       IF ~IsSupported(l)
       THEN /\ reqs' = Append(reqs, [q EXCEPT !.pc = "done",
                    !.resp = HTTPException(400, <<"Unsupported language for TTS">>)])
            /\ UNCHANGED issued
       ELSE \E imp \in ImportOutcomes :
              IF imp # "ok"
              THEN /\ reqs' = Append(reqs, [q EXCEPT !.pc = "done",
                           !.resp = HTTPException(500, <<"TTS engine unavailable", imp>>)])
                   /\ UNCHANGED issued
              ELSE /\ issued' = issued + 1
                   /\ reqs' = Append(reqs, [q EXCEPT !.pc = "synth",
                           !.filename = Filename(issued + 1, t, l)])
    /\ UNCHANGED <<db, jobs, files>>

\* Lines 161-168: synthesis and the save into OUTPUT_DIR.
TtsSynth(r) ==
    /\ reqs[r].pc = "synth"
    /\ \E o \in EngineOutcomes :
         LET q == reqs[r] IN
         /\ files' = IF o \in {"ok", "save_raises_partial"}
                     THEN files \cup {[name |-> q.filename, writer |-> r]}
                     ELSE files
         /\ Set(r, [q EXCEPT !.engine = o,
                             !.pc = AfterSynth(o),
                             !.resp = IF AfterSynth(o) = "done"
                                      THEN HTTPException(502,
                                             <<"TTS failed for", q.lang,
                                               "Try a different language (e.g., hi)">>)
                                      ELSE @])
    /\ UNCHANGED <<db, jobs, issued>>

\* Lines 170-183: the best-effort Job write and the response.
TtsPersist(r) ==
    /\ reqs[r].pc = "persist"
    /\ reqs[r].ep = "tts"
    /\ \E o \in PersistOutcomes :
         LET q == reqs[r]
             ok == [NoResp EXCEPT !.status = 200,
                                  !.fields = {"audio_url"},
                                  !.audio_url = q.filename]
         IN /\ jobs' = StoreJob(jobs, r, TtsJob(q), o)
            /\ Set(r, [q EXCEPT !.persist = o, !.resp = AfterPersist(o, ok),
                                !.pc = "done"])
    /\ UNCHANGED <<db, files, issued>>

-----------------------------------------------------------------------------
(* Specification *)

Init ==
    /\ reqs = <<>>
    /\ db \in {"None", "connected"}
    /\ jobs = {}
    /\ files = {}
    /\ issued = 0

Next ==
    \/ \E t \in TranslateTexts, l \in LangInputs : TranslateStart(t, l)
    \/ \E r \in Ids : TranslateLibre(r)
    \/ \E r \in Ids : TranslateMyMemory(r)
    \/ \E r \in Ids : TranslatePersist(r)
    \/ \E t \in TtsTexts, l \in LangInputs : TtsStart(t, l)
    \/ \E r \in Ids : TtsSynth(r)
    \/ \E r \in Ids : TtsPersist(r)

Spec == Init /\ [][Next]_vars

-----------------------------------------------------------------------------
(* Properties *)

Done(r) == reqs[r].pc = "done"
Translate == {r \in Ids : reqs[r].ep = "translate"}
Tts == {r \in Ids : reqs[r].ep = "tts"}
Answered == {r \in Translate : Done(r) /\ reqs[r].resp.status = 200}
JobsOf(r) == {j \in jobs : j.req = r}
FilesOf(r) == {f \in files : f.writer = r}

\* What a provider call counted as, read off the recorded outcome.
ProviderRaised(out) == out.kind = "raise"
ReturnedEmpty(out) == out.kind = "return" /\ (out.val.isNone \/ Len(out.val.v) = 0)
ReturnedNonEmpty(out) == out.kind = "return" /\ ~out.val.isNone /\ Len(out.val.v) > 0
ReturnedBlank(out) == out.kind = "return" /\ (out.val.isNone \/ IsBlank(out.val.v))
Unusable(out) == ProviderRaised(out) \/ ReturnedBlank(out)
Count(b) == IF b THEN 1 ELSE 0

\* C1: a request whose language code is not a supported code ends with a 400,
\* and has invoked no provider and no synthesis engine, written no file and
\* written no Job.
C1_UnsupportedRejectedFirst ==
    \A r \in Ids :
        reqs[r].lang \notin DOMAIN SUPPORTED_LANGS =>
            /\ Done(r)
            /\ reqs[r].resp.status = 400
            /\ reqs[r].calls = <<>>
            /\ reqs[r].libre = NotCalled /\ reqs[r].mymemory = NotCalled
            /\ reqs[r].engine = "none"
            /\ reqs[r].filename = NoFile
            /\ FilesOf(r) = {}
            /\ JobsOf(r) = {}

C1_Witness ==
    /\ \E r \in Translate : reqs[r].lang = "xx" /\ reqs[r].resp.status = 400
    /\ \E r \in Tts : reqs[r].lang = "xx" /\ reqs[r].resp.status = 400

\* C2: when both providers were invoked and both failed (raised, or returned
\* nothing usable: null, empty or whitespace-only), /translate answers 200
\* with the input text as `translated` and at most 2 notes.
C2_AllFailEchoesInput ==
    \A r \in Translate :
        (Done(r) /\ reqs[r].lang \in DOMAIN SUPPORTED_LANGS
           /\ Unusable(reqs[r].libre)
           /\ Unusable(reqs[r].mymemory)) =>
            /\ reqs[r].resp.status = 200
            /\ reqs[r].resp.translated = Str(reqs[r].text)
            /\ Len(reqs[r].resp.notes) <= 2

\* C3: once the primary provider has returned a non-empty translation the
\* secondary is not invoked, and the providers are invoked at most once each,
\* the primary first.
C3_ShortCircuitSinglePass ==
    \A r \in Translate :
        /\ ReturnedNonEmpty(reqs[r].libre) => reqs[r].calls = <<"libre">>
        /\ reqs[r].calls \in {<<>>, <<"libre">>, <<"libre", "mymemory">>}

C3_Witness ==
    \E r \in Answered :
        /\ ReturnedNonEmpty(reqs[r].libre)
        /\ reqs[r].mymemory = NotCalled
        /\ reqs[r].resp.translated = reqs[r].libre.val

\* C4: the status and the set of body fields of a /translate or /tts response
\* that got as far as the Job write do not depend on how the write ended
\* (skipped because db is None, raised, stored).
C4_PersistenceNeverShowsInResponse ==
    \A r \in Ids :
        (Done(r) /\ reqs[r].persist \in {"skipped", "raised", "stored"}) =>
            /\ reqs[r].resp.status = 200
            /\ reqs[r].resp.fields =
                 IF reqs[r].ep = "translate" THEN {"translated", "notes"}
                 ELSE {"audio_url"}

C4_Witness ==
    /\ \E r \in Translate : Done(r) /\ reqs[r].persist = "raised" /\ JobsOf(r) = {}
    /\ \E r \in Tts : Done(r) /\ reqs[r].persist = "raised" /\ JobsOf(r) = {}

\* C5: with a supported language /translate always answers 200, and
\* `translated` is the result of the first provider, primary then secondary,
\* that returned a non-empty string; the input text only when neither did.
C5_FirstNonEmptyWins ==
    \A r \in Translate :
        (Done(r) /\ reqs[r].lang \in DOMAIN SUPPORTED_LANGS) =>
            /\ reqs[r].resp.status = 200
            /\ reqs[r].resp.translated =
                 IF ReturnedNonEmpty(reqs[r].libre) THEN reqs[r].libre.val
                 ELSE IF ReturnedNonEmpty(reqs[r].mymemory) THEN reqs[r].mymemory.val
                 ELSE Str(reqs[r].text)

C5_Witness ==
    \E r \in Answered :
        /\ ProviderRaised(reqs[r].libre)
        /\ ReturnedNonEmpty(reqs[r].mymemory)
        /\ reqs[r].resp.translated = reqs[r].mymemory.val
        /\ reqs[r].resp.translated # Str(reqs[r].text)

\* C6: no two /tts requests share an output file name, and no file in the
\* output directory is written by more than one request.
C6_UniqueFileNames ==
    /\ \A r1, r2 \in Tts :
         (r1 # r2 /\ reqs[r1].filename # NoFile) =>
             reqs[r1].filename # reqs[r2].filename
    /\ \A f1, f2 \in files : f1.name = f2.name => f1.writer = f2.writer

C6_Witness ==
    \E r1, r2 \in Tts :
        /\ r1 # r2
        /\ reqs[r1].text = reqs[r2].text /\ reqs[r1].lang = reqs[r2].lang
        /\ reqs[r1].engine = "ok" /\ reqs[r2].engine = "ok"
        /\ FilesOf(r1) # {} /\ FilesOf(r2) # {}

\* C7: a provider that returns a whitespace-only string or a null payload is
\* treated as failed: the chain goes on to the next provider, and the value is
\* not what `translated` carries.
C7_BlankPayloadIsFailure ==
    \A r \in Answered :
        /\ ReturnedBlank(reqs[r].libre) => reqs[r].mymemory.kind # "none"
        /\ (ReturnedBlank(reqs[r].libre) /\ ReturnedBlank(reqs[r].mymemory)) =>
              reqs[r].resp.translated = Str(reqs[r].text)
        /\ (ProviderRaised(reqs[r].libre) /\ ReturnedBlank(reqs[r].mymemory)) =>
              reqs[r].resp.translated = Str(reqs[r].text)

\* C8 (as stated): the number of notes equals the number of providers that
\* were invoked and failed, by raising or by returning an empty result.
C8_NotePerFailedProvider ==
    \A r \in Answered :
        Len(reqs[r].resp.notes) =
            Count(ProviderRaised(reqs[r].libre) \/ ReturnedEmpty(reqs[r].libre))
          + Count(ProviderRaised(reqs[r].mymemory) \/ ReturnedEmpty(reqs[r].mymemory))

\* C8 (amended): the number of notes equals the number of providers that
\* raised; a provider that returned an empty result leaves no note.
C8_NotePerRaisingProvider ==
    \A r \in Answered :
        /\ Len(reqs[r].resp.notes) =
              Count(ProviderRaised(reqs[r].libre))
            + Count(ProviderRaised(reqs[r].mymemory))
        /\ Len(reqs[r].resp.notes) <= 2

C8_Witness ==
    /\ \E r \in Answered :
         /\ ReturnedEmpty(reqs[r].libre)
         /\ ProviderRaised(reqs[r].mymemory)
         /\ Len(reqs[r].resp.notes) = 1
    /\ \E r \in Answered :
         /\ ProviderRaised(reqs[r].libre)
         /\ ProviderRaised(reqs[r].mymemory)
         /\ Len(reqs[r].resp.notes) = 2

\* C9: every step leaves the Job records already stored as they are, a
\* request has at most one Job, and a request that ended in an error response
\* has none.
OneJobPerRequest ==
    \A r \in Ids :
        /\ Cardinality(JobsOf(r)) <= 1
        /\ (Done(r) /\ reqs[r].resp.status \in {400, 500, 502}) => JobsOf(r) = {}

C9_JobsAppendOnly ==
    [][jobs \subseteq jobs' /\ OneJobPerRequest /\ OneJobPerRequest']_vars

C9_Witness ==
    /\ \E r \in Ids : Done(r) /\ reqs[r].resp.status = 200 /\ Cardinality(JobsOf(r)) = 1
    /\ \E r \in Ids : Done(r) /\ reqs[r].resp.status = 502 /\ JobsOf(r) = {}

\* C10: a /tts request whose synthesis failed ends with a 502 whose detail names
\* the requested language and suggests another, carries no audio_url and
\* writes no Job; a Job with an audio_filename belongs to a request whose
\* synthesis and save succeeded, and names the file of that request's
\* audio_url.
C10_SynthesisFailureAndJob ==
    /\ \A r \in Tts :
         reqs[r].engine \in {"ctor_raises", "save_raises", "save_raises_partial"} =>
             /\ Done(r)
             /\ reqs[r].resp.status = 502
             /\ Len(reqs[r].resp.detail) = 3
             /\ reqs[r].resp.detail[2] = reqs[r].lang
             /\ reqs[r].resp.detail[3] = "Try a different language (e.g., hi)"
             /\ "audio_url" \notin reqs[r].resp.fields
             /\ reqs[r].resp.audio_url = NoFile
             /\ JobsOf(r) = {}
    /\ \A j \in jobs :
         (j.doc.audio_filename # NoFile \/ j.doc.status = "tts_generated") =>
             /\ reqs[j.req].ep = "tts"
             /\ reqs[j.req].engine = "ok"
             /\ [name |-> j.doc.audio_filename, writer |-> j.req] \in files
             /\ j.doc.audio_filename # NoFile
             /\ j.doc.status = "tts_generated"
             /\ reqs[j.req].resp.status = 200
             /\ reqs[j.req].resp.audio_url = j.doc.audio_filename

C10_Witness ==
    /\ \E r \in Tts : reqs[r].engine = "save_raises_partial" /\ reqs[r].resp.status = 502
    /\ \E j \in jobs : j.doc.status = "tts_generated" /\ reqs[j.req].resp.status = 200

=============================================================================
